---- MODULE Spec2Model ----
(***************************************************************************)
(* Model of graiax/mockery/model/message.py: the pydantic (v1) data model  *)
(* of mirai-api-http message chains.  The module declares one BaseModel    *)
(* per element variant and a MessageChain with the custom root type        *)
(* List[Element]; decoding is pydantic's model validation of those         *)
(* declarations, encoding is pydantic's .dict()/.json().                   *)
(*                                                                         *)
(* Python values are records tagged by k:                                  *)
(*   str  [k, s]      int  [k, n]       None [k]        list [k, items]    *)
(*   dict [k, f]      datetime [k, epoch]   Enum member [k, e, s]          *)
(*   model instance [k, cls, f]                                            *)
(***************************************************************************)
EXTENDS Integers, Sequences, FiniteSets, TLC

\* ------------------------------------------------------------------ values
None == [k |-> "none"]
StrV(s) == [k |-> "str", s |-> s]
IntV(n) == [k |-> "int", n |-> n]
ListV(items) == [k |-> "list", items |-> items]
DictV(f) == [k |-> "dict", f |-> f]
Datetime(n) == [k |-> "datetime", epoch |-> n]
EnumMember(e, s) == [k |-> "enum", e |-> e, s |-> s]
Model(cls, f) == [k |-> "model", cls |-> cls, f |-> f]

EmptyFn == [x \in {} |-> None]

\* outcome of a validation: a value, or pydantic's list of errors
Ok(v) == [ok |-> TRUE, val |-> v, errs |-> <<>>]
Fail(loc, type) == [ok |-> FALSE, val |-> None, errs |-> <<[loc |-> loc, type |-> type]>>]
Errors(errs) == [ok |-> FALSE, val |-> None, errs |-> errs]

\* ------------------------------------------------- field declarations
\* One record per declared field: name, wire alias, annotated type,
\* whether a value is required, whether None is allowed, and the default.
Required(name, type) ==
    [name |-> name, alias |-> name, type |-> type, required |-> TRUE, allow_none |-> FALSE, default |-> None]
Optional(name, type) ==
    [name |-> name, alias |-> name, type |-> type, required |-> FALSE, allow_none |-> TRUE, default |-> None]
Tag(value) ==
    [name |-> "type", alias |-> "type", type |-> "str", required |-> FALSE, allow_none |-> FALSE, default |-> StrV(value)]

\* faulty variant: the tag declared without its default ("type: str")
Element_TagRequired == <<Required("type", "str")>>
Element == <<Tag("Unknown")>>
Plain == <<Tag("Plain"), Required("text", "str")>>
Source == <<Tag("Source"), Required("id", "int"), Required("time", "datetime")>>
Quote ==
    <<Tag("Quote"), Required("id", "int"), Required("groupId", "int"), Required("senderId", "int"),
      Required("targetId", "int"), Required("origin", "MessageChain")>>
At == <<Tag("At"), Required("target", "int"), Optional("display", "str")>>
AtAll == <<Tag("AtAll")>>
Face == <<Tag("Face"), Optional("faceId", "int"), Optional("name", "str")>>
MarketFace == <<Tag("MarketFace"), Required("id", "int"), Required("name", "str")>>
Xml == <<Tag("Xml"), Required("xml", "str")>>
\* Json: str = Field(None, alias="json"): default None, so not required
Json ==
    <<Tag("Json"),
      [name |-> "Json", alias |-> "json", type |-> "str", required |-> FALSE, allow_none |-> TRUE, default |-> None]>>
App == <<Tag("App"), Required("content", "str")>>
PokeMethods ==
    {"ChuoYiChuo", "BiXin", "DianZan", "XinSui", "LiuLiuLiu", "FangDaZhao", "BaoBeiQiu", "Rose",
     "ZhaoHuanShu", "RangNiPi", "JeiYin", "ShouLei", "GouYin", "ZhuaYiXia", "SuiPing", "QiaoMen"}
\* faulty variant: the method annotated as a plain str instead of the Enum
Poke_NameAnyStr == <<Tag("Poke"), Required("name", "str")>>
Poke == <<Tag("Poke"), Required("name", "PokeMethods")>>
Dice == <<Tag("Dice"), Required("value", "int")>>
MusicShareKind == {"NeteaseCloudMusic", "QQMusic", "MiguMusic", "KugouMusic", "KuwoMusic"}
MusicShare ==
    <<Tag("MusicShare"), Required("kind", "MusicShareKind"), Optional("title", "str"),
      Optional("summary", "str"), Optional("jumpUrl", "str"), Optional("pictureUrl", "str"),
      Optional("musicUrl", "str"), Optional("brief", "str")>>
ForwardNode ==
    <<Required("senderId", "int"), Required("time", "datetime"), Required("senderName", "str"),
      Optional("messageChain", "MessageChain"), Optional("messageId", "int")>>
Forward == <<Tag("Forward"), Required("nodeList", "List[ForwardNode]")>>
File == <<Tag("File"), Required("id", "str"), Required("name", "str"), Required("size", "int")>>
MiraiCode == <<Tag("MiraiCode"), Required("code", "str")>>
MultimediaElement ==
    <<Tag("Unknown"), Optional("id", "str"), Optional("url", "str"), Optional("path", "str"),
      Optional("base64", "str")>>
Image ==
    <<Tag("Image"), Optional("imageId", "str"), Optional("url", "str"), Optional("path", "str"),
      Optional("base64", "str")>>
FlashImage ==
    <<Tag("FlashImage"), Optional("imageId", "str"), Optional("url", "str"), Optional("path", "str"),
      Optional("base64", "str")>>
Voice ==
    <<Tag("Voice"), Optional("voiceId", "str"), Optional("url", "str"), Optional("path", "str"),
      Optional("base64", "str"), Optional("length", "int")>>
\* __root__: List[Element]
MessageChain ==
    <<[name |-> "__root__", alias |-> "__root__", type |-> "List[Element]", required |-> TRUE,
       allow_none |-> FALSE, default |-> None]>>

\* the variants of Element declared in the module (subclasses with a tag)
Variants ==
    {"Plain", "Source", "Quote", "At", "AtAll", "Face", "MarketFace", "Xml", "Json", "App", "Poke",
     "Dice", "MusicShare", "Forward", "File", "MiraiCode", "Image", "FlashImage", "Voice"}
\* every class for which isinstance(x, Element) holds
ElementClasses == Variants \cup {"Element", "MultimediaElement"}
Classes == ElementClasses \cup {"ForwardNode", "MessageChain"}

Fields(cls) ==
    CASE cls = "Element" -> Element
      [] cls = "Plain" -> Plain
      [] cls = "Source" -> Source
      [] cls = "Quote" -> Quote
      [] cls = "At" -> At
      [] cls = "AtAll" -> AtAll
      [] cls = "Face" -> Face
      [] cls = "MarketFace" -> MarketFace
      [] cls = "Xml" -> Xml
      [] cls = "Json" -> Json
      [] cls = "App" -> App
      [] cls = "Poke" -> Poke
      [] cls = "Dice" -> Dice
      [] cls = "MusicShare" -> MusicShare
      [] cls = "ForwardNode" -> ForwardNode
      [] cls = "Forward" -> Forward
      [] cls = "File" -> File
      [] cls = "MiraiCode" -> MiraiCode
      [] cls = "MultimediaElement" -> MultimediaElement
      [] cls = "Image" -> Image
      [] cls = "FlashImage" -> FlashImage
      [] cls = "Voice" -> Voice
      [] cls = "MessageChain" -> MessageChain

\* ------------------------------------------------------------ validation
RECURSIVE validate(_, _)
RECURSIVE validate_model(_, _)
RECURSIVE Flatten(_)

Flatten(seqs) == IF seqs = <<>> THEN <<>> ELSE Head(seqs) \o Flatten(Tail(seqs))

\* an outcome with its error locations prefixed by p
Prefix(p, r) ==
    IF r.ok THEN r
    ELSE Errors([i \in 1..Len(r.errs) |-> [loc |-> <<p>> \o r.errs[i].loc, type |-> r.errs[i].type]])

\* isinstance(instance of c, cls) for the classes of the module
IsInstance(c, cls) == c = cls \/ (cls = "Element" /\ c \in ElementClasses)

\* int(s) for a str s: the decimal numerals of the modelled integers parse
IntVals == 0..9
IsNumeral(s) == \E n \in IntVals : ToString(n) = s
IntOfStr(s) == CHOOSE n \in IntVals : ToString(n) = s

\* pydantic str_validator: str kept, a str Enum member gives its value, numbers are formatted
str_validator(v) ==
    CASE v.k = "str" -> Ok(v)
      [] v.k = "enum" -> Ok(StrV(v.s))
      [] v.k = "int" -> Ok(StrV(ToString(v.n)))
      [] OTHER -> Fail(<<>>, "type_error.str")

\* pydantic int_validator: int kept, otherwise int(v)
int_validator(v) ==
    CASE v.k = "int" -> Ok(v)
      [] v.k \in {"str", "enum"} ->
            IF IsNumeral(v.s) THEN Ok(IntV(IntOfStr(v.s))) ELSE Fail(<<>>, "type_error.integer")
      [] OTHER -> Fail(<<>>, "type_error.integer")

\* pydantic parse_datetime: a datetime kept, a number or numeral read as epoch seconds
parse_datetime(v) ==
    CASE v.k = "datetime" -> Ok(v)
      [] v.k = "int" -> Ok(Datetime(v.n))
      [] v.k \in {"str", "enum"} ->
            IF IsNumeral(v.s) THEN Ok(Datetime(IntOfStr(v.s))) ELSE Fail(<<>>, "value_error.datetime")
      [] OTHER -> Fail(<<>>, "type_error")

\* pydantic enum_member_validator for a str Enum e with value set members
enum_member_validator(e, members, v) ==
    IF v.k \in {"str", "enum"} /\ v.s \in members
    THEN Ok(EnumMember(e, v.s))
    ELSE Fail(<<>>, "type_error.enum")

\* dict(value) for a value that is no dict: the empty iterables give {},
\* a model instance iterates as (field name, value) pairs
CanDict(v) ==
    \/ v.k = "model"
    \/ v.k = "str" /\ v.s = ""
    \/ v.k = "list" /\ v.items = <<>>
AsDict(v) == IF v.k = "model" THEN v.f ELSE EmptyFn

\* faulty variant: an instance is not recognised and is validated again from its fields
ModelValidate_Reparse(cls, v) ==
    LET w == IF cls = "MessageChain" /\ ~(v.k = "dict" /\ DOMAIN v.f = {"__root__"})
             THEN DictV("__root__" :> v)
             ELSE v
    IN  CASE w.k = "dict" -> validate_model(cls, w.f)
          [] CanDict(w) -> validate_model(cls, AsDict(w))
          [] OTHER -> Fail(<<>>, "type_error.dict")

\* BaseModel.validate(value) of class cls: an instance is kept (copied),
\* anything else is turned into a dict and passed to cls(**value)
ModelValidate(cls, v) ==
    IF v.k = "model" /\ IsInstance(v.cls, cls) THEN Ok(v)
    ELSE LET w == IF cls = "MessageChain" /\ ~(v.k = "dict" /\ DOMAIN v.f = {"__root__"})
                  THEN DictV("__root__" :> v)
                  ELSE v
         IN  CASE w.k = "dict" -> validate_model(cls, w.f)
               [] CanDict(w) -> validate_model(cls, AsDict(w))
               [] OTHER -> Fail(<<>>, "type_error.dict")

\* faulty variant: the validated items are collected without repetitions
RECURSIVE Distinct(_)
Distinct(q) ==
    IF q = <<>> THEN <<>>
    ELSE LET front == SubSeq(q, 1, Len(q) - 1)
             x == q[Len(q)]
         IN  IF \E i \in 1..Len(front) : front[i] = x THEN Distinct(front) ELSE Append(Distinct(front), x)
validate_sequence_distinct(item, v) ==
    IF v.k # "list" THEN Fail(<<>>, "type_error.list")
    ELSE LET rs == [i \in 1..Len(v.items) |-> Prefix(ToString(i - 1), validate(item, v.items[i]))]
             errs == Flatten([i \in 1..Len(rs) |-> rs[i].errs])
         IN  IF errs # <<>> THEN Errors(errs)
             ELSE Ok(ListV(Distinct([i \in 1..Len(rs) |-> rs[i].val])))

\* ModelField._validate_sequence_like for List[item]: every item is validated in
\* order, results and errors are collected, any error fails the list
validate_sequence_like(item, v) ==
    IF v.k # "list" THEN Fail(<<>>, "type_error.list")
    ELSE LET rs == [i \in 1..Len(v.items) |-> Prefix(ToString(i - 1), validate(item, v.items[i]))]
             errs == Flatten([i \in 1..Len(rs) |-> rs[i].errs])
         IN  IF errs # <<>> THEN Errors(errs)
             ELSE Ok(ListV([i \in 1..Len(rs) |-> rs[i].val]))

\* validation of a value that is not None against an annotated type
validate(type, v) ==
    CASE type = "str" -> str_validator(v)
      [] type = "int" -> int_validator(v)
      [] type = "datetime" -> parse_datetime(v)
      [] type = "PokeMethods" -> enum_member_validator(type, PokeMethods, v)
      [] type = "MusicShareKind" -> enum_member_validator(type, MusicShareKind, v)
      [] type = "List[Element]" -> validate_sequence_like("Element", v)
      [] type = "List[ForwardNode]" -> validate_sequence_like("ForwardNode", v)
      [] OTHER ->
            IF v.k = "none" THEN Fail(<<>>, "type_error.none.not_allowed") ELSE ModelValidate(type, v)

\* ModelField.validate: None is accepted only where the field allows it
validate_field(fd, v) ==
    IF v.k = "none"
    THEN IF fd.allow_none THEN Ok(None) ELSE Fail(<<>>, "type_error.none.not_allowed")
    ELSE validate(fd.type, v)

\* pydantic validate_model: each declared field is read under its alias;
\* keys that name no field are ignored (Config.extra = ignore)
validate_model(cls, d) ==
    LET fs == Fields(cls)
        rs == [i \in 1..Len(fs) |->
                 IF fs[i].alias \in DOMAIN d
                 THEN Prefix(fs[i].alias, validate_field(fs[i], d[fs[i].alias]))
                 ELSE IF fs[i].required THEN Fail(<<fs[i].alias>>, "value_error.missing")
                 ELSE Ok(fs[i].default)]
        errs == Flatten([i \in 1..Len(fs) |-> rs[i].errs])
        names == {fs[i].name : i \in 1..Len(fs)}
        idx(n) == CHOOSE i \in 1..Len(fs) : fs[i].name = n
    IN  IF errs # <<>> THEN Errors(errs)
        ELSE Ok(Model(cls, [n \in names |-> rs[idx(n)].val]))

\* MessageChain.__init__(self, __root__): super().__init__(__root__=__root__)
MessageChainInit(root) == validate_model("MessageChain", "__root__" :> root)

\* BaseModel.parse_obj(obj) of class cls
parse_obj(cls, v) ==
    LET w == IF cls = "MessageChain" /\ ~(v.k = "dict" /\ DOMAIN v.f = {"__root__"})
             THEN DictV("__root__" :> v)
             ELSE v
    IN  CASE w.k = "dict" -> validate_model(cls, w.f)
          [] CanDict(w) -> validate_model(cls, AsDict(w))
          [] OTHER -> Fail(<<"__root__">>, "type_error.dict")

\* -------------------------------------------------------------- encoding
RECURSIVE dict(_, _)
RECURSIVE get_value(_, _)

\* BaseModel.dict(by_alias=...): one key per field, the field's name unless by_alias
dict(m, by_alias) ==
    LET fs == Fields(m.cls)
        key(i) == IF by_alias THEN fs[i].alias ELSE fs[i].name
        idx(x) == CHOOSE i \in 1..Len(fs) : key(i) = x
    IN  DictV([x \in {key(i) : i \in 1..Len(fs)} |-> get_value(m.f[fs[idx(x)].name], by_alias)])

\* BaseModel._get_value(to_dict=True): nested models become dicts (a custom root
\* model is unwrapped to its root value), lists are converted item by item
get_value(v, by_alias) ==
    CASE v.k = "model" ->
            LET d == dict(v, by_alias)
            IN  IF "__root__" \in DOMAIN d.f THEN d.f["__root__"] ELSE d
      [] v.k = "list" -> ListV([i \in 1..Len(v.items) |-> get_value(v.items[i], by_alias)])
      [] OTHER -> v

\* the wire form of a model: what .json() serialises (a custom root is unwrapped)
encode(m, by_alias) == get_value(m, by_alias)

\* BaseModel.__eq__: two models are equal when their .dict() are equal
\* (a str Enum member equals its value)
RECURSIVE PyValue(_)
PyValue(v) ==
    CASE v.k = "enum" -> StrV(v.s)
      [] v.k = "list" -> ListV([i \in 1..Len(v.items) |-> PyValue(v.items[i])])
      [] v.k = "dict" -> DictV([x \in DOMAIN v.f |-> PyValue(v.f[x])])
      [] OTHER -> v
ModelEq(a, b) == PyValue(dict(a, FALSE)) = PyValue(dict(b, FALSE))

\* ---------------------------------------------------------------- inputs
MaxLen == 2
MaxDepth == 3

\* a wire value of each annotated type (timestamps travel as epoch numbers)
Sample(type) ==
    CASE type = "str" -> StrV("hi")
      [] type = "int" -> IntV(1)
      [] type = "datetime" -> IntV(1)
      [] type = "PokeMethods" -> StrV("DianZan")
      [] type = "MusicShareKind" -> StrV("QQMusic")
      [] OTHER -> ListV(<<>>)

Aliases(cls) == {Fields(cls)[i].alias : i \in 1..Len(Fields(cls))}
FieldOf(cls, a) == Fields(cls)[CHOOSE i \in 1..Len(Fields(cls)) : Fields(cls)[i].alias = a]

\* the complete wire object of a class, and the same with key a left out
Full(cls) ==
    DictV([a \in Aliases(cls) |-> IF a = "type" THEN StrV(cls) ELSE Sample(FieldOf(cls, a).type)])
Without(d, a) == DictV([x \in DOMAIN d.f \ {a} |-> d.f[x]])
With(d, a, v) == DictV([x \in DOMAIN d.f \cup {a} |-> IF x = a THEN v ELSE d.f[x]])

PlainRaw(text) == With(Full("Plain"), "text", StrV(text))
QuoteRaw(origin) == With(Full("Quote"), "origin", origin)
NodeRaw(chain) == With(Full("ForwardNode"), "messageChain", chain)
ForwardRaw(chain) == With(Full("Forward"), "nodeList", ListV(<<NodeRaw(chain)>>))

\* wire objects whose tag is missing, no string, or no tag of the module
Untagged == {DictV(EmptyFn), Without(PlainRaw("hi"), "type")}
BadTag == {With(DictV(EmptyFn), "type", None), With(DictV(EmptyFn), "type", ListV(<<>>))}
UnknownTag == {With(DictV(EmptyFn), "type", StrV("Bogus")), With(PlainRaw("hi"), "type", StrV("plain"))}

Methods == {StrV("DianZan"), StrV("QiaoMen"), StrV("NotARealMethod"), StrV("dianzan"), IntV(1), None}
PokeRaws ==
    {With(Without(Full("Poke"), "name"), key, m) : key \in {"name", "method"}, m \in Methods}
        \cup {With(With(Full("Poke"), "name", m), "method", n) :
                m \in {StrV("DianZan"), StrV("NotARealMethod")}, n \in {StrV("DianZan"), StrV("NotARealMethod")}}
JsonRaws ==
    {With(Without(Full("Json"), "json"), key, v) : key \in {"json", "Json"}, v \in {StrV("hi"), StrV("{}"), None}}

\* elements nested to depth d: Quote.origin and ForwardNode.messageChain hold chains
RECURSIVE Nested(_)
Nested(d) ==
    LET leaves == {PlainRaw("nested"), With(DictV(EmptyFn), "type", None)}
    IN  IF d = 0 THEN leaves
        ELSE LET chains == {ListV(<<>>)} \cup {ListV(<<e>>) : e \in Nested(d - 1)}
             IN  leaves \cup {QuoteRaw(c) : c \in chains} \cup {ForwardRaw(c) : c \in chains}

\* every wire value handed to a decoder
Payloads ==
    {Full(c) : c \in Variants \cup {"ForwardNode"}}
        \cup UNION {{Without(Full(c), a) : a \in Aliases(c)} : c \in Variants \cup {"ForwardNode"}}
        \cup {With(Full(c), "type", StrV("At")) : c \in {"Plain", "Json"}}
        \cup {PlainRaw("hi"), PlainRaw("nested")}
        \cup Untagged \cup BadTag \cup UnknownTag \cup PokeRaws \cup JsonRaws \cup Nested(MaxDepth)
        \cup {None, IntV(1), StrV("hi"), StrV(""), ListV(<<>>)}

\* instances built by the variants' own constructors
Instance(cls, d) == validate_model(cls, d.f).val
Instances ==
    {Instance("Plain", PlainRaw("hi")), Instance("AtAll", Full("AtAll")),
     Instance("Poke", Full("Poke")), Instance("Json", Full("Json")),
     Instance("Source", Full("Source")),
     Instance("Plain", With(PlainRaw("hi"), "type", StrV("At"))),
     Instance("Quote", QuoteRaw(ListV(<<Instance("Plain", PlainRaw("nested"))>>))),
     Instance("ForwardNode", Full("ForwardNode"))}

\* the items of the chains handed to MessageChain(...)
Items ==
    {PlainRaw("hi"), Full("AtAll"), Full("Source"), With(Full("Poke"), "name", StrV("NotARealMethod")),
     Without(PlainRaw("hi"), "text"), QuoteRaw(ListV(<<With(DictV(EmptyFn), "type", None)>>)),
     QuoteRaw(ListV(<<PlainRaw("nested")>>)), IntV(1)}
        \cup Untagged \cup BadTag \cup UnknownTag \cup Instances

RECURSIVE SeqsUpTo(_, _)
SeqsUpTo(S, n) ==
    IF n = 0 THEN {<<>>}
    ELSE LET shorter == SeqsUpTo(S, n - 1)
         IN  shorter \cup {Append(q, x) : q \in {r \in shorter : Len(r) = n - 1}, x \in S}

Roots ==
    {ListV(q) : q \in SeqsUpTo(Items, MaxLen)}
        \cup {ListV(<<e>>) : e \in Payloads}
        \cup {None, StrV("hi"), Full("Plain"), Instance("Plain", PlainRaw("hi"))}

\* ----------------------------------------------------------------- state
VARIABLES last, cls, arg, obj, err, wire, orig
vars == <<last, cls, arg, obj, err, wire, orig>>

\* the calls a run can start with: the class called and the value handed to it
Calls ==
    {<<"MessageChain", root>> : root \in Roots}
        \cup {<<c, v>> : c \in Variants \cup {"Element", "ForwardNode"}, v \in Payloads}

\* no call made yet; the run's input is chosen
Init ==
    /\ last = "none"
    /\ \E call \in Calls :
          /\ cls = call[1]
          /\ arg = call[2]
    /\ obj = None
    /\ err = <<>>
    /\ wire = None
    /\ orig = None

\* MessageChain(arg): the instance, or the ValidationError's errors
Construct ==
    /\ last = "none"
    /\ cls = "MessageChain"
    /\ LET r == MessageChainInit(arg)
       IN  /\ obj' = r.val
           /\ err' = r.errs
    /\ last' = "MessageChain"
    /\ UNCHANGED <<cls, arg, wire, orig>>

\* cls.parse_obj(arg) for a class of the module
ParseObj ==
    /\ last = "none"
    /\ cls # "MessageChain"
    /\ LET r == parse_obj(cls, arg)
       IN  /\ obj' = r.val
           /\ err' = r.errs
    /\ last' = "parse_obj"
    /\ UNCHANGED <<cls, arg, wire, orig>>

\* obj.type = tag: models are mutable and assignments are not validated
SetAttr(tag) ==
    /\ last \in {"MessageChain", "parse_obj"}
    /\ obj.k = "model"
    /\ "type" \in DOMAIN obj.f
    /\ obj.f["type"] # tag
    /\ obj' = [obj EXCEPT !.f["type"] = tag]
    /\ last' = "setattr"
    /\ UNCHANGED <<cls, arg, err, wire, orig>>

\* the wire form of the current instance
Encode(by_alias) ==
    /\ last \in {"MessageChain", "parse_obj"}
    /\ obj.k = "model"
    /\ wire' = encode(obj, by_alias)
    /\ last' = IF by_alias THEN "dict_by_alias" ELSE "dict"
    /\ UNCHANGED <<cls, arg, obj, err, orig>>

\* the wire form decoded again by the class that produced it
Decode ==
    /\ last \in {"dict", "dict_by_alias"}
    /\ LET r == IF cls = "MessageChain" THEN MessageChainInit(wire) ELSE parse_obj(cls, wire)
       IN  /\ obj' = r.val
           /\ err' = r.errs
    /\ orig' = obj
    /\ last' = "decode"
    /\ UNCHANGED <<cls, arg, wire>>

Next ==
    \/ Construct
    \/ ParseObj
    \/ \E tag \in {StrV("At"), StrV("Plain")} : SetAttr(tag)
    \/ \E by_alias \in BOOLEAN : Encode(by_alias)
    \/ Decode

Spec == Init /\ [][Next]_vars

\* ------------------------------------------------------------ properties
Root(m) == m.f["__root__"].items
Decoded == last = "MessageChain" /\ arg.k = "list"
Encoded == last \in {"dict", "dict_by_alias"}
ByAlias == last = "dict_by_alias"
\* an instance of a variant carrying the variant's own tag
WellTagged(m) == m.k = "model" /\ m.cls \in Variants /\ m.f["type"] = StrV(m.cls)
\* a wire object without a tag, or with a string tag that names no variant
NoKnownTag(v) ==
    /\ v.k = "dict"
    /\ "type" \in DOMAIN v.f => v.f["type"].k = "str" /\ v.f["type"].s \notin Variants
GenericElement(v) ==
    Model("Element", "type" :> (IF "type" \in DOMAIN v.f THEN v.f["type"] ELSE StrV("Unknown")))
ErrorAt(loc, type) == \E i \in 1..Len(err) : err[i].loc = loc /\ err[i].type = type

\* C1 (as claimed): a chain of well-tagged variant instances, encoded to the wire
\* array and decoded again by MessageChain, comes back equal to the chain.
C1_RoundTripIdentity ==
    (last = "decode" /\ cls = "MessageChain" /\ \A i \in 1..Len(Root(orig)) : WellTagged(Root(orig)[i]))
        => err = <<>> /\ ModelEq(obj, orig)

\* C2 (as claimed): a chain holding an object whose type is absent or names no
\* variant fails to decode and produces no element.
C2_UnknownTagFails ==
    (Decoded /\ \E i \in 1..Len(arg.items) : NoKnownTag(arg.items[i]))
        => err # <<>> /\ obj = None

\* C2 (amended): an object whose type is absent, or a string that names no
\* variant, decodes without error, as a chain item and through Element.parse_obj,
\* into a generic Element tagged "Unknown" (type absent) or with the given string.
C2_UnknownTagGivesGenericElement ==
    /\ Decoded =>
          \A i \in 1..Len(arg.items) :
              NoKnownTag(arg.items[i]) =>
                  /\ \A j \in 1..Len(err) : err[j].loc[2] # ToString(i - 1)
                  /\ err = <<>> => Root(obj)[i] = GenericElement(arg.items[i])
    /\ (last = "parse_obj" /\ cls = "Element" /\ NoKnownTag(arg)) =>
          err = <<>> /\ obj = GenericElement(arg)
C2_Witness ==
    /\ Decoded
    /\ err = <<>>
    /\ Len(arg.items) = 2
    /\ NoKnownTag(arg.items[1]) /\ "type" \notin DOMAIN arg.items[1].f
    /\ NoKnownTag(arg.items[2]) /\ "type" \in DOMAIN arg.items[2].f
    /\ Root(obj)[1].f["type"] = StrV("Unknown")

\* C3: a chain that decodes has one element per payload, the i-th element being
\* the decoding of the i-th payload, and its encoding has the elements in the
\* same order: nothing is reordered, deduplicated or filtered.
C3_ChainOrderPreserved ==
    /\ (Decoded /\ err = <<>>) =>
          /\ Len(Root(obj)) = Len(arg.items)
          /\ \A i \in 1..Len(arg.items) : Root(obj)[i] = ModelValidate("Element", arg.items[i]).val
    /\ (Encoded /\ cls = "MessageChain") =>
          /\ wire.k = "list"
          /\ Len(wire.items) = Len(Root(obj))
          /\ \A i \in 1..Len(wire.items) : wire.items[i] = get_value(Root(obj)[i], ByAlias)
C3_Witness ==
    /\ Encoded
    /\ cls = "MessageChain"
    /\ arg = ListV(<<PlainRaw("hi"), PlainRaw("hi")>>)
    /\ Len(Root(obj)) = 2
    /\ Len(wire.items) = 2

\* an element that does not decode: the element itself, or an item of its nested origin
FailsToDecode(v) ==
    \/ ~ModelValidate("Element", v).ok
    \/ /\ v.k = "dict"
       /\ "origin" \in DOMAIN v.f
       /\ v.f["origin"].k = "list"
       /\ \E j \in 1..Len(v.f["origin"].items) : ~ModelValidate("Element", v.f["origin"].items[j]).ok

\* C4 (as claimed): when any element of the raw sequence, or of a nested
\* Quote.origin, fails to decode, MessageChain fails as a whole.
C4_ChainAllOrNothing ==
    (Decoded /\ \E i \in 1..Len(arg.items) : FailsToDecode(arg.items[i]))
        => err # <<>> /\ obj = None

IsToken(v) == v.k = "str" /\ v.s \in PokeMethods
TagAccepted(v) == "type" \in DOMAIN v.f => v.f["type"].k = "str"

\* C5 (as claimed): decoding a Poke succeeds exactly when the wire field
\* `method` is present and is one of the 16 tokens.
C5_PokeMethodDecides ==
    (last = "parse_obj" /\ cls = "Poke" /\ arg.k = "dict" /\ TagAccepted(arg))
        => (err = <<>> <=> ("method" \in DOMAIN arg.f /\ IsToken(arg.f["method"])))

\* C5 (amended): Poke validation succeeds exactly when the wire field `name` is
\* present and is, case-sensitively, one of the 16 tokens; it then carries that
\* method, and any other value of `name` is an enum error; `method` is ignored.
C5_PokeNameDecides ==
    (last = "parse_obj" /\ cls = "Poke" /\ arg.k = "dict" /\ TagAccepted(arg)) =>
        /\ err = <<>> <=> ("name" \in DOMAIN arg.f /\ IsToken(arg.f["name"]))
        /\ err = <<>> => obj.f["name"] = EnumMember("PokeMethods", arg.f["name"].s)
        /\ ("name" \in DOMAIN arg.f /\ arg.f["name"].k # "none" /\ ~IsToken(arg.f["name"]))
              => err = <<[loc |-> <<"name">>, type |-> "type_error.enum"]>>
        /\ "name" \notin DOMAIN arg.f => err = <<[loc |-> <<"name">>, type |-> "value_error.missing"]>>
C5_Witness ==
    /\ last = "parse_obj"
    /\ cls = "Poke"
    /\ arg.k = "dict"
    /\ {"name", "method"} \subseteq DOMAIN arg.f
    /\ arg.f["name"] = StrV("DianZan")
    /\ arg.f["method"] = StrV("NotARealMethod")
    /\ err = <<>>
    /\ obj.f["name"].s = "DianZan"

\* C6 (as claimed): a Json decoded from {type: "Json", json: s} holds s, and its
\* encoding has key `json` = s and no key `Json`.
C6_JsonWireKey ==
    (Encoded /\ cls = "Json" /\ arg.k = "dict" /\ "json" \in DOMAIN arg.f /\ arg.f["json"].k = "str"
        /\ TagAccepted(arg))
        => /\ obj.f["Json"] = arg.f["json"]
           /\ wire.k = "dict"
           /\ "json" \in DOMAIN wire.f
           /\ wire.f["json"] = arg.f["json"]
           /\ "Json" \notin DOMAIN wire.f

\* C7 (as claimed): the items of a Quote's origin decode into the variants their
\* tags name; origin [{type: "Plain", text: "nested"}] gives one Plain with text "nested".
C7_QuoteOriginTyped ==
    (last = "parse_obj" /\ cls = "Quote" /\ err = <<>> /\ arg.k = "dict"
        /\ arg.f["origin"].k = "list") =>
        LET raw == arg.f["origin"].items
            got == Root(obj.f["origin"])
        IN  /\ Len(got) = Len(raw)
            /\ \A j \in 1..Len(raw) :
                  (raw[j].k = "dict" /\ "type" \in DOMAIN raw[j].f /\ raw[j].f["type"].k = "str"
                      /\ raw[j].f["type"].s \in Variants)
                      => got[j].cls = raw[j].f["type"].s
            /\ raw = <<PlainRaw("nested")>> =>
                  got = <<Model("Plain", "type" :> StrV("Plain") @@ "text" :> StrV("nested"))>>

\* the wire keys the data model of the specification marks required
SpecRequired(c) ==
    {Fields(c)[i].alias : i \in {j \in 1..Len(Fields(c)) : Fields(c)[j].required}}
        \cup (IF c = "Json" THEN {"json"} ELSE {})

\* C8 (as claimed): decoding a variant's payload that lacks a required field
\* fails with a missing-field error naming the field, and yields no element.
C8_RequiredFieldMissing ==
    (last = "parse_obj" /\ cls \in Variants /\ arg.k = "dict" /\ TagAccepted(arg)) =>
        \A a \in SpecRequired(cls) :
            a \notin DOMAIN arg.f => obj = None /\ ErrorAt(<<a>>, "value_error.missing")

\* the element instances held by the current instance
Elements ==
    IF obj.k # "model" THEN {}
    ELSE IF obj.cls = "MessageChain" THEN {Root(obj)[i] : i \in 1..Len(Root(obj))}
    ELSE {obj}

\* C9 (as claimed): every instance of a variant carries the variant's name as
\* its tag, after construction, decoding and assignment alike.
C9_TagEqualsVariant == \A m \in Elements : m.cls \in Variants => m.f["type"] = StrV(m.cls)

\* C10: MessageChain built from Element instances holds, at each index, an
\* instance of the same class with the same field values as the input.
C10_TypedElementsKept ==
    (Decoded /\ \A i \in 1..Len(arg.items) : arg.items[i].k = "model" /\ arg.items[i].cls \in ElementClasses)
        => err = <<>> /\ Root(obj) = arg.items
C10_Witness ==
    /\ Decoded
    /\ Len(arg.items) = 2
    /\ arg.items[1].k = "model" /\ arg.items[1].cls = "Quote"
    /\ arg.items[2].k = "model" /\ arg.items[2].cls = "Plain"
    /\ Root(obj) = arg.items

====
